---- MODULE Spec2Model ----
(***************************************************************************)
(* Base64Converter (src/base64_converter.py): a converter object holding   *)
(* an optional base64 text and an optional file path, its two operations   *)
(* arquivo_para_base64 / base64_para_arquivo, the aliases converter /      *)
(* desconverter, and the interactive loop main().                          *)
(*                                                                         *)
(* A text (Python str) is a sequence of one-character strings; a bytes     *)
(* object is a sequence of integers 0..255.  Optional values are records:  *)
(* None, or Some(v).                                                       *)
(***************************************************************************)
EXTENDS Integers, Sequences, FiniteSets, TLC

VARIABLES
    base64_string,   \* self._base64_string : None or Some(text)
    arquivo_path,    \* self._arquivo_path  : None or Some(path)
    fs,              \* the filesystem: path -> [kind, data]
    last,            \* the last call: operation, arguments, outcome
    pc,              \* position of the running program
    opcao,           \* main(): the stripped menu choice last read
    out              \* main(): the kind of message last printed

vars == <<base64_string, arquivo_path, fs, last, pc, opcao, out>>

None == [some |-> FALSE]
Some(v) == [some |-> TRUE, val |-> v]

----------------------------------------------------------------------------
(* Bounds of the model.                                                    *)

\* longest byte sequence of the file the round-trip script encodes
MaxLen == 4

----------------------------------------------------------------------------
(* base64.b64encode / base64.b64decode (binascii), as called on lines 79   *)
(* and 112.                                                                *)

\* the standard alphabet, RFC 4648 table 1
Alphabet ==
    << "A","B","C","D","E","F","G","H","I","J","K","L","M",
       "N","O","P","Q","R","S","T","U","V","W","X","Y","Z",
       "a","b","c","d","e","f","g","h","i","j","k","l","m",
       "n","o","p","q","r","s","t","u","v","w","x","y","z",
       "0","1","2","3","4","5","6","7","8","9","+","/" >>

BASE64_PAD == "="

\* characters that are not ASCII (str.encode('ascii') rejects them)
NonAscii == {"e_acute"}

Pow2(n) == IF n = 0 THEN 1 ELSE IF n = 2 THEN 4 ELSE IF n = 4 THEN 16
           ELSE IF n = 6 THEN 64 ELSE IF n = 8 THEN 256
           ELSE IF n = 10 THEN 1024 ELSE 4096

\* 6-bit value -> character
table_b2a_base64(v) == Alphabet[v + 1]

\* a plausible slip: the URL-safe table, which has "-" and "_" for "+" and "/"
table_a2b_base64_urlsafe(c) ==
    IF c = "-" THEN 62 ELSE IF c = "_" THEN 63
    ELSE IF \E i \in 1..62 : Alphabet[i] = c
    THEN (CHOOSE i \in 1..62 : Alphabet[i] = c) - 1
    ELSE 64

\* character -> 6-bit value; 64 stands for "not in the alphabet"
table_a2b_base64(c) ==
    IF \E i \in 1..64 : Alphabet[i] = c
    THEN (CHOOSE i \in 1..64 : Alphabet[i] = c) - 1
    ELSE 64

\* inner loop of b2a_base64: shift out 6 bits at a time while there are 6.
\* leftchar is kept to its low leftbits bits (the only ones the C code reads).
RECURSIVE b2a_shift(_, _, _)
b2a_shift(leftchar, leftbits, acc) ==
    IF leftbits >= 6
    THEN LET this_ch == (leftchar \div Pow2(leftbits - 6)) % 64
         IN  b2a_shift(leftchar % Pow2(leftbits - 6), leftbits - 6,
                       Append(acc, table_b2a_base64(this_ch)))
    ELSE [leftchar |-> leftchar, leftbits |-> leftbits, acc |-> acc]

RECURSIVE b2a_loop(_, _, _, _, _)
b2a_loop(data, i, leftchar, leftbits, acc) ==
    IF i > Len(data)
    THEN IF leftbits = 2
         THEN acc \o << table_b2a_base64((leftchar % 4) * 16), BASE64_PAD, BASE64_PAD >>
         ELSE IF leftbits = 4
         THEN acc \o << table_b2a_base64((leftchar % 16) * 4), BASE64_PAD >>
         ELSE acc
    ELSE LET s == b2a_shift(leftchar * 256 + data[i], leftbits + 8, acc)
         IN  b2a_loop(data, i + 1, s.leftchar, s.leftbits, s.acc)

\* a plausible slip: the text without its "=" padding
b64encode_nopad(data) ==
    SelectSeq(b2a_loop(data, 1, 0, 0, <<>>), LAMBDA c : c # BASE64_PAD)

\* base64.b64encode(conteudo).decode('utf-8')
b64encode(data) == b2a_loop(data, 1, 0, 0, <<>>)

\* binascii.a2b_base64 in its default, non-strict mode: characters outside
\* the alphabet are skipped, decoding stops at the padding that completes a
\* quad, and anything after it is ignored.
RECURSIVE a2b_loop(_, _, _, _, _, _)
a2b_loop(text, i, quad_pos, leftchar, pads, acc) ==
    IF i > Len(text)
    THEN IF quad_pos # 0
         THEN [ok |-> FALSE, data |-> <<>>]
         ELSE [ok |-> TRUE, data |-> acc]
    ELSE LET c == text[i]
             v == table_a2b_base64(c)
         IN  IF c = BASE64_PAD
             THEN IF quad_pos >= 2 /\ quad_pos + pads + 1 >= 4
                  THEN [ok |-> TRUE, data |-> acc]
                  ELSE a2b_loop(text, i + 1, quad_pos, leftchar,
                                IF quad_pos >= 2 THEN pads + 1 ELSE pads, acc)
             ELSE IF v >= 64
             THEN a2b_loop(text, i + 1, quad_pos, leftchar, pads, acc)
             ELSE IF quad_pos = 0
             THEN a2b_loop(text, i + 1, 1, v, 0, acc)
             ELSE IF quad_pos = 1
             THEN a2b_loop(text, i + 1, 2, v % 16, 0,
                           Append(acc, leftchar * 4 + v \div 16))
             ELSE IF quad_pos = 2
             THEN a2b_loop(text, i + 1, 3, v % 4, 0,
                           Append(acc, leftchar * 16 + v \div 4))
             ELSE a2b_loop(text, i + 1, 0, 0, 0,
                           Append(acc, leftchar * 64 + v))

\* base64.b64decode(base64_str): a str must be ASCII, then a2b_base64
b64decode(text) ==
    IF \E i \in 1..Len(text) : text[i] \in NonAscii
    THEN [ok |-> FALSE, data |-> <<>>]
    ELSE a2b_loop(text, 1, 0, 0, 0, <<>>)

----------------------------------------------------------------------------
(* Paths and the filesystem.  A path string is a text; a Path object is    *)
(* the sequence of its segments, each a text.  Only relative paths occur.  *)

\* str.split("/")
RECURSIVE split(_, _, _)
split(s, i, seg) ==
    IF i > Len(s) THEN <<seg>>
    ELSE IF s[i] = "/" THEN <<seg>> \o split(s, i + 1, <<>>)
    ELSE split(s, i + 1, Append(seg, s[i]))

\* pathlib.Path(arquivo_path): the segments, without empty and "." ones
Path(s) == SelectSeq(split(s, 1, <<>>), LAMBDA seg : seg \notin {<<>>, <<".">>})

\* Path.parent; the parent of the current directory is itself
Parent(p) == IF p = <<>> THEN <<>> ELSE SubSeq(p, 1, Len(p) - 1)

\* the paths of the modelled directory tree, the current directory first
AllPaths ==
    { <<>>, << <<"a">> >>, << <<"d">> >>, << <<"n">> >>, << <<"n">>, <<"g">> >> }

Absent == [kind |-> "absent", data |-> <<>>]
Dir == [kind |-> "dir", data |-> <<>>]
File(bytes) == [kind |-> "file", data |-> bytes]

\* Path.exists() and Path.is_file()
exists(f, p) == f[p].kind # "absent"
is_file(f, p) == f[p].kind = "file"

\* Path.mkdir(parents=True, exist_ok=True): [ok, err, fs]
RECURSIVE mkdir(_, _)
mkdir(f, q) ==
    IF f[q].kind = "dir" THEN [ok |-> TRUE, err |-> "", fs |-> f]
    ELSE IF f[q].kind = "file"
    THEN [ok |-> FALSE, err |-> "FileExistsError", fs |-> f]
    ELSE IF f[Parent(q)].kind = "file"
    THEN [ok |-> FALSE, err |-> "NotADirectoryError", fs |-> f]
    ELSE LET r == mkdir(f, Parent(q))
         IN  IF r.ok
             THEN [ok |-> TRUE, err |-> "", fs |-> [r.fs EXCEPT ![q] = Dir]]
             ELSE r

\* open(path, 'wb') and write: truncates or creates a regular file
open_wb_write(f, p, bytes) ==
    IF f[p].kind = "dir"
    THEN [ok |-> FALSE, err |-> "IsADirectoryError", fs |-> f]
    ELSE [ok |-> TRUE, err |-> "", fs |-> [f EXCEPT ![p] = File(bytes)]]

----------------------------------------------------------------------------
(* The methods of Base64Converter, as functions from the object's state    *)
(* st = [b64, path, fs] and the arguments to the state after the call,     *)
(* the value returned or the exception raised, and the methods entered.    *)

NoExc == [type |-> "", msg |-> ""]
Exc(type, msg) == [type |-> type, msg |-> msg]

MsgNeedPath == "E necessario fornecer um caminho de arquivo"
MsgNotFound == "Arquivo nao encontrado"
MsgNotFile == "O caminho nao e um arquivo"
MsgNeedBase64 == "E necessario fornecer uma string base64"
MsgNeedSavePath == "E necessario fornecer um caminho para salvar o arquivo"
MsgInvalidBase64 == "String base64 invalida"
MsgNeedBase64First == "E necessario ter uma string base64"
MsgNotStr == "base64_string deve ser uma string"

\* a method's outcome that raises: the object and the filesystem as they are
Raise(st, exc, trace) ==
    [b64 |-> st.b64, path |-> st.path, fs |-> st.fs,
     ret |-> None, exc |-> exc, trace |-> trace]

\* truthiness of an optional str argument: None and "" are false
Truthy(arg) == arg # None /\ arg.val # <<>>

\* path = Path(arquivo_path) if arquivo_path else self._arquivo_path
ResolvePath(st, arg) == IF Truthy(arg) THEN Some(Path(arg.val)) ELSE st.path

\* a plausible slip: the source location is remembered as well
read_and_encode_stores_path(st, path, trace) ==
    LET base64_encoded == b64encode(st.fs[path.val].data)
    IN  [b64 |-> Some(base64_encoded), path |-> path, fs |-> st.fs,
         ret |-> Some(base64_encoded), exc |-> NoExc, trace |-> trace]

\* lines 77-81: read the whole file, encode, store and return the text
read_and_encode(st, path, trace) ==
    LET base64_encoded == b64encode(st.fs[path.val].data)
    IN  [b64 |-> Some(base64_encoded), path |-> st.path, fs |-> st.fs,
         ret |-> Some(base64_encoded), exc |-> NoExc, trace |-> trace]

\* a plausible slip: is_file() is tested before exists()
arquivo_para_base64_is_file_first(st, arg, trace) ==
    LET path == ResolvePath(st, arg) IN
    IF path = None
    THEN Raise(st, Exc("ValueError", MsgNeedPath), trace)
    ELSE IF ~ is_file(st.fs, path.val)
    THEN Raise(st, Exc("ValueError", MsgNotFile), trace)
    ELSE IF ~ exists(st.fs, path.val)
    THEN Raise(st, Exc("FileNotFoundError", MsgNotFound), trace)
    ELSE read_and_encode(st, path, trace)

arquivo_para_base64(st, arg, trace) ==
    LET path == ResolvePath(st, arg) IN
    IF path = None
    THEN Raise(st, Exc("ValueError", MsgNeedPath), trace)
    ELSE IF ~ exists(st.fs, path.val)
    THEN Raise(st, Exc("FileNotFoundError", MsgNotFound), trace)
    ELSE IF ~ is_file(st.fs, path.val)
    THEN Raise(st, Exc("ValueError", MsgNotFile), trace)
    ELSE read_and_encode(st, path, trace)

\* a plausible slip: the stored text wins over the argument
ResolveText_stored_first(st, text) == IF st.b64 # None THEN st.b64 ELSE text

\* base64_str = base64_string if base64_string is not None else self._base64_string
ResolveText(st, text) == IF text # None THEN text ELSE st.b64

\* a plausible slip: the destination is returned but not remembered
remember_and_return_forgets(st, path, f, trace) ==
    [b64 |-> st.b64, path |-> st.path, fs |-> f,
     ret |-> path, exc |-> NoExc, trace |-> trace]

\* lines 122-123: self._arquivo_path = path; return path
remember_and_return(st, path, f, trace) ==
    [b64 |-> st.b64, path |-> path, fs |-> f,
     ret |-> path, exc |-> NoExc, trace |-> trace]

\* lines 117-123: create the parent directories, write the bytes, remember
\* and return the destination
write_decoded(st, path, bytes, trace) ==
    LET made == mkdir(st.fs, Parent(path.val)) IN
    IF ~ made.ok
    THEN Raise([st EXCEPT !.fs = made.fs], Exc(made.err, ""), trace)
    ELSE LET wrote == open_wb_write(made.fs, path.val, bytes) IN
         IF ~ wrote.ok
         THEN Raise([st EXCEPT !.fs = wrote.fs], Exc(wrote.err, ""), trace)
         ELSE remember_and_return(st, path, wrote.fs, trace)

\* a plausible slip: the parent directories are created before the text is
\* decoded
base64_para_arquivo_mkdir_first(st, text, arg, trace) ==
    LET base64_str == ResolveText(st, text)
        path == ResolvePath(st, arg)
    IN
    IF base64_str = None
    THEN Raise(st, Exc("ValueError", MsgNeedBase64), trace)
    ELSE IF path = None
    THEN Raise(st, Exc("ValueError", MsgNeedSavePath), trace)
    ELSE LET made == mkdir(st.fs, Parent(path.val))
             conteudo_decodificado == b64decode(base64_str.val)
         IN  IF ~ made.ok
             THEN Raise(st, Exc(made.err, ""), trace)
             ELSE IF ~ conteudo_decodificado.ok
             THEN Raise([st EXCEPT !.fs = made.fs],
                        Exc("ValueError", MsgInvalidBase64), trace)
             ELSE write_decoded(st, path, conteudo_decodificado.data, trace)

base64_para_arquivo(st, text, arg, trace) ==
    LET base64_str == ResolveText(st, text)
        path == ResolvePath(st, arg)
    IN
    IF base64_str = None
    THEN Raise(st, Exc("ValueError", MsgNeedBase64), trace)
    ELSE IF path = None
    THEN Raise(st, Exc("ValueError", MsgNeedSavePath), trace)
    ELSE LET conteudo_decodificado == b64decode(base64_str.val) IN
         IF ~ conteudo_decodificado.ok
         THEN Raise(st, Exc("ValueError", MsgInvalidBase64), trace)
         ELSE write_decoded(st, path, conteudo_decodificado.data, trace)

converter(st, arg) ==
    arquivo_para_base64(st, arg, <<"converter", "arquivo_para_base64">>)

\* a plausible slip: no check of its own, the general decode is left to fail
desconverter_unguarded(st, arg) ==
    base64_para_arquivo(st, None, arg, <<"desconverter", "base64_para_arquivo">>)

desconverter(st, arg) ==
    IF st.b64 = None
    THEN Raise(st, Exc("ValueError", MsgNeedBase64First), <<"desconverter">>)
    ELSE base64_para_arquivo(st, None, arg,
                             <<"desconverter", "base64_para_arquivo">>)

\* the base64_string setter; value = [is_str, val]
set_base64_string(st, value) ==
    IF ~ value.is_str
    THEN Raise(st, Exc("TypeError", MsgNotStr), <<"base64_string.setter">>)
    ELSE [b64 |-> Some(value.val), path |-> st.path, fs |-> st.fs,
          ret |-> None, exc |-> NoExc, trace |-> <<"base64_string.setter">>]

\* the arquivo_path setter
set_arquivo_path(st, value) ==
    [b64 |-> st.b64, path |-> Some(Path(value)), fs |-> st.fs,
     ret |-> None, exc |-> NoExc, trace |-> <<"arquivo_path.setter">>]

\* __init__
Base64Converter(base64_string_arg, arquivo_path_arg, f) ==
    [b64 |-> base64_string_arg,
     path |-> IF Truthy(arquivo_path_arg)
              THEN Some(Path(arquivo_path_arg.val)) ELSE None,
     fs |-> f]

----------------------------------------------------------------------------
(* Calls on one converter object, in any order.                            *)

St == [b64 |-> base64_string, path |-> arquivo_path, fs |-> fs]

\* a call's effect on the object and the filesystem, and its record
Apply(r, text, arg) ==
    /\ base64_string' = r.b64
    /\ arquivo_path' = r.path
    /\ fs' = r.fs
    /\ last' = [op |-> r.trace[1], text |-> text, arg |-> arg,
                ret |-> r.ret, exc |-> r.exc, trace |-> r.trace]

\* the directory tree before the program runs: d is a directory, a is a
\* regular file holding bytes, nothing else exists
Tree(bytes) ==
    [p \in AllPaths |->
        IF p = <<>> \/ p = << <<"d">> >> THEN Dir
        ELSE IF p = << <<"a">> >> THEN File(bytes)
        ELSE Absent]

\* path strings a caller passes: "", "a", "d", "n", "./n//g"
PathStrs ==
    { <<>>, <<"a">>, <<"d">>, <<"n">>, <<".", "/", "n", "/", "/", "g">> }

PathArgs == {None} \cup {Some(s) : s \in PathStrs}

\* texts a caller passes: "", "QQ==", "QQ=", "Q!Q=="
TextVals ==
    { <<>>, <<"Q", "Q", "=", "=">>, <<"Q", "Q", "=">>,
      <<"Q", "!", "Q", "=", "=">> }

TextArgs == {None} \cup {Some(t) : t \in TextVals}

NoCall == [op |-> "__init__", text |-> None, arg |-> None,
           ret |-> None, exc |-> NoExc, trace |-> <<"__init__">>]

Init ==
    /\ \E b \in {None, Some(<<"Q", "Q", "=", "=">>)},
          a \in {None, Some(<<>>), Some(<<"a">>)} :
          LET c == Base64Converter(b, a, Tree(<<65, 66>>))
          IN  base64_string = c.b64 /\ arquivo_path = c.path /\ fs = c.fs
    /\ last = NoCall
    /\ pc = "api"
    /\ opcao = <<>>
    /\ out = ""

Call_arquivo_para_base64 ==
    \E arg \in PathArgs :
        /\ Apply(arquivo_para_base64(St, arg, <<"arquivo_para_base64">>), None, arg)
        /\ UNCHANGED <<pc, opcao, out>>

Call_base64_para_arquivo ==
    \E text \in TextArgs, arg \in PathArgs :
        /\ Apply(base64_para_arquivo(St, text, arg, <<"base64_para_arquivo">>),
                 text, arg)
        /\ UNCHANGED <<pc, opcao, out>>

Call_converter ==
    \E arg \in PathArgs \ {None} :
        /\ Apply(converter(St, arg), None, arg)
        /\ UNCHANGED <<pc, opcao, out>>

Call_desconverter ==
    \E arg \in PathArgs \ {None} :
        /\ Apply(desconverter(St, arg), None, arg)
        /\ UNCHANGED <<pc, opcao, out>>

Set_base64_string ==
    \E value \in {[is_str |-> TRUE, val |-> <<"Q", "Q", "=">>],
                  [is_str |-> FALSE, val |-> <<>>]} :
        /\ Apply(set_base64_string(St, value),
                 IF value.is_str THEN Some(value.val) ELSE None, None)
        /\ UNCHANGED <<pc, opcao, out>>

Set_arquivo_path ==
    \E value \in {<<"d">>, <<"n", "/", "g">>} :
        /\ Apply(set_arquivo_path(St, value), None, Some(value))
        /\ UNCHANGED <<pc, opcao, out>>

Next ==
    \/ Call_arquivo_para_base64
    \/ Call_base64_para_arquivo
    \/ Call_converter
    \/ Call_desconverter
    \/ Set_base64_string
    \/ Set_arquivo_path

Spec == Init /\ [][Next]_vars

----------------------------------------------------------------------------
(* The round trip: a file holding bytes is encoded by a new converter and  *)
(* the returned text is decoded to a destination that does not exist yet.  *)

\* byte values of the encoded file: they reach every corner of the alphabet
\* ("A" from 0, "/" from 255, "+" from 251)
ByteVals == {0, 65, 251, 255}

BytesUpTo(n) == UNION {[1..k -> ByteVals] : k \in 0..n}

InitRoundTrip ==
    /\ \E bytes \in BytesUpTo(MaxLen) :
          LET c == Base64Converter(None, None, Tree(bytes))
          IN  base64_string = c.b64 /\ arquivo_path = c.path /\ fs = c.fs
    /\ last = NoCall
    /\ pc = "rt_encode"
    /\ opcao = <<>>
    /\ out = ""

RoundTripEncode ==
    /\ pc = "rt_encode"
    /\ Apply(arquivo_para_base64(St, Some(<<"a">>), <<"arquivo_para_base64">>),
             None, Some(<<"a">>))
    /\ pc' = "rt_decode"
    /\ UNCHANGED <<opcao, out>>

\* the text is passed back explicitly, or left to the stored text
RoundTripDecode ==
    /\ pc = "rt_decode"
    /\ \E text \in {last.ret, None},
          dst \in {<<"n">>, <<".", "/", "n", "/", "/", "g">>} :
          Apply(base64_para_arquivo(St, text, Some(dst), <<"base64_para_arquivo">>),
                text, Some(dst))
    /\ pc' = "rt_done"
    /\ UNCHANGED <<opcao, out>>

NextRoundTrip == RoundTripEncode \/ RoundTripDecode

SpecRoundTrip == InitRoundTrip /\ [][NextRoundTrip]_vars

----------------------------------------------------------------------------
(* main(): the interactive loop.  Each line read from standard input is a  *)
(* text; every request builds a converter of its own.                      *)

Whitespace == {" ", "\t", "\n"}

RECURSIVE lstrip(_)
lstrip(s) == IF s # <<>> /\ s[1] \in Whitespace THEN lstrip(Tail(s)) ELSE s

RECURSIVE rstrip(_)
rstrip(s) ==
    IF s # <<>> /\ s[Len(s)] \in Whitespace
    THEN rstrip(SubSeq(s, 1, Len(s) - 1)) ELSE s

\* str.strip()
strip(s) == rstrip(lstrip(s))

\* base64_input.replace(" ", "").replace("\n", "")
remove_spaces(s) == SelectSeq(s, LAMBDA c : c \notin {" ", "\n"})

\* the except clauses of option 1: what is printed and where the loop goes
except_opcao1(exc) ==
    IF exc = NoExc THEN [pc |-> "menu", out |-> "Conversao realizada com sucesso"]
    ELSE IF exc.type = "FileNotFoundError" THEN [pc |-> "menu", out |-> "Erro"]
    ELSE IF exc.type = "ValueError" THEN [pc |-> "menu", out |-> "Erro"]
    ELSE [pc |-> "menu", out |-> "Erro inesperado"]

\* a plausible slip: only ValueError is caught, anything else ends the program
except_opcao2_valueerror_only(exc) ==
    IF exc = NoExc THEN [pc |-> "menu", out |-> "Desconversao realizada com sucesso"]
    ELSE IF exc.type = "ValueError" THEN [pc |-> "menu", out |-> "Erro"]
    ELSE [pc |-> "crashed", out |-> "Traceback"]

\* the except clauses of option 2
except_opcao2(exc) ==
    IF exc = NoExc THEN [pc |-> "menu", out |-> "Desconversao realizada com sucesso"]
    ELSE IF exc.type = "ValueError" THEN [pc |-> "menu", out |-> "Erro"]
    ELSE [pc |-> "menu", out |-> "Erro inesperado"]

\* lines typed at the menu: "0", " 0 ", "1", "2 ", "3", ""
OpcaoLines ==
    { <<"0">>, <<" ", "0", " ">>, <<"1">>, <<"2", " ">>, <<"3">>, <<>> }

\* lines typed for a path: "", " ", "a", " d ", "n", "n/g"
PathLines ==
    { <<>>, <<" ">>, <<"a">>, <<" ", "d", " ">>, <<"n">>, <<"n", "/", "g">> }

\* lines typed for a base64 text: "", "QQ==", " Q Q==", "QQ=", "Q!Q=="
Base64Lines ==
    { <<>>, <<"Q", "Q", "=", "=">>, <<" ", "Q", " ", "Q", "=", "=">>,
      <<"Q", "Q", "=">>, <<"Q", "!", "Q", "=", "=">> }

InitMain ==
    /\ base64_string = None
    /\ arquivo_path = None
    /\ fs = Tree(<<65, 66>>)
    /\ last = NoCall
    /\ pc = "menu"
    /\ opcao = <<>>
    /\ out = ""

\* a pass of the loop that printed msg and built no converter
Refused(msg) ==
    /\ out' = msg
    /\ last' = NoCall
    /\ UNCHANGED <<base64_string, arquivo_path, fs, pc>>

MainSair ==
    /\ pc = "menu"
    /\ \E line \in OpcaoLines :
          /\ strip(line) = <<"0">>
          /\ opcao' = strip(line)
    /\ out' = "Encerrando o programa"
    /\ last' = NoCall
    /\ pc' = "exited"
    /\ UNCHANGED <<base64_string, arquivo_path, fs>>

MainConverter ==
    /\ pc = "menu"
    /\ \E line \in OpcaoLines :
          /\ strip(line) = <<"1">>
          /\ opcao' = strip(line)
    /\ \E typed \in PathLines :
          LET arquivo == strip(typed) IN
          IF arquivo = <<>>
          THEN Refused("Erro: Caminho do arquivo nao pode estar vazio")
          ELSE LET r == converter(Base64Converter(None, None, fs), Some(arquivo))
                   h == except_opcao1(r.exc)
               IN  /\ Apply(r, None, Some(arquivo))
                   /\ out' = h.out
                   /\ pc' = h.pc

MainDesconverter ==
    /\ pc = "menu"
    /\ \E line \in OpcaoLines :
          /\ strip(line) = <<"2">>
          /\ opcao' = strip(line)
    /\ \E typed64 \in Base64Lines, typed \in PathLines :
          LET base64_input == remove_spaces(strip(typed64))
              arquivo == strip(typed)
          IN
          IF strip(typed64) = <<>>
          THEN Refused("Erro: Codigo base64 nao pode estar vazio")
          ELSE IF arquivo = <<>>
          THEN Refused("Erro: Caminho de saida nao pode estar vazio")
          ELSE LET r == base64_para_arquivo(
                            Base64Converter(Some(base64_input), None, fs),
                            None, Some(arquivo), <<"base64_para_arquivo">>)
                   h == except_opcao2(r.exc)
               IN  /\ Apply(r, None, Some(arquivo))
                   /\ out' = h.out
                   /\ pc' = h.pc

MainInvalida ==
    /\ pc = "menu"
    /\ \E line \in OpcaoLines :
          /\ strip(line) \notin {<<"0">>, <<"1">>, <<"2">>}
          /\ opcao' = strip(line)
    /\ Refused("Opcao invalida")

NextMain == MainSair \/ MainConverter \/ MainDesconverter \/ MainInvalida

SpecMain == InitMain /\ [][NextMain]_vars

----------------------------------------------------------------------------
(* Properties of the calls.                                                *)

\* the call recorded in l ran method m (directly or through its alias)
Ran(l, m) == l.trace[Len(l.trace)] = m
Ok(l) == l.exc = NoExc

\* an argument counts as given when it is neither None nor the empty string
Given(arg) == arg # None /\ arg.val # <<>>

QQpad == <<"Q", "Q", "=", "=">>
DirN == << <<"n">> >>
FileNG == << <<"n">>, <<"g">> >>

\* C2: after a successful encode the stored text is the returned text; after
\* a successful decode the stored location is the returned destination, which
\* is the explicit argument when one was given.
C2_StoredEqualsReturned ==
    /\ (Ran(last, "arquivo_para_base64") /\ Ok(last))
          => (last.ret # None /\ base64_string = last.ret)
    /\ (Ran(last, "base64_para_arquivo") /\ Ok(last))
          => /\ last.ret # None
             /\ arquivo_path = last.ret
             /\ Given(last.arg) => last.ret = Some(Path(last.arg.val))

\* a decode that took its destination from the stored location succeeded
C2_Witness ==
    /\ Ran(last, "base64_para_arquivo") /\ Ok(last)
    /\ ~ Given(last.arg)
    /\ last.text = None
    /\ arquivo_path = Some(FileNG)

\* C3 as stated: after a successful encode with an explicit location, the
\* stored location is that source location.
C3_EncodeStoresSource ==
    (Ran(last, "arquivo_para_base64") /\ Ok(last) /\ Given(last.arg))
        => arquivo_path = Some(Path(last.arg.val))

\* C3 amended: a successful encode leaves the stored location as it was.
C3_EncodeKeepsLocation ==
    [][(Ran(last', "arquivo_para_base64") /\ Ok(last'))
           => arquivo_path' = arquivo_path]_vars

\* an encode of an explicit source succeeded while another location is stored
C3_Witness ==
    /\ Ran(last, "arquivo_para_base64") /\ Ok(last)
    /\ Given(last.arg)
    /\ arquivo_path # None
    /\ arquivo_path # Some(Path(last.arg.val))

\* C4: encode reports the first failing precondition, in the order: no
\* location resolvable, location does not exist, location is not a regular
\* file; it reads the file (and succeeds) only when all three pass.
C4_EncodeOrder ==
    [][Ran(last', "arquivo_para_base64") =>
          LET loc == IF Given(last'.arg) THEN Some(Path(last'.arg.val))
                     ELSE arquivo_path
          IN  IF loc = None
              THEN last'.exc = Exc("ValueError", MsgNeedPath)
              ELSE IF fs[loc.val].kind = "absent"
              THEN last'.exc = Exc("FileNotFoundError", MsgNotFound)
              ELSE IF fs[loc.val].kind # "file"
              THEN last'.exc = Exc("ValueError", MsgNotFile)
              ELSE Ok(last') /\ last'.ret # None]_vars

\* an encode that fell back to a stored location naming a directory
C4_Witness ==
    /\ Ran(last, "arquivo_para_base64")
    /\ last.arg = None
    /\ arquivo_path = Some(<< <<"d">> >>)
    /\ last.exc = Exc("ValueError", MsgNotFile)

\* a text is malformed when it has a character outside the alphabet and "=",
\* or its length is not a multiple of 4
IsMalformed(t) ==
    \/ \E i \in 1..Len(t) :
          t[i] # BASE64_PAD /\ ~ \E k \in 1..64 : Alphabet[k] = t[i]
    \/ Len(t) % 4 # 0

\* C5 as stated: a decode given a malformed text never succeeds; it fails
\* with ValueError (invalid base64, or no destination).
C5_MalformedRejected ==
    (Ran(last, "base64_para_arquivo") /\ last.text # None
        /\ IsMalformed(last.text.val))
        => /\ last.exc.type = "ValueError"
           /\ last.exc.msg \in {MsgInvalidBase64, MsgNeedSavePath}

\* the destination can be written: it is no directory and its parent is no file
Writable(f, p) == f[p].kind # "dir" /\ f[Parent(p)].kind # "file"

\* C6: decode uses the explicit text, else the stored text, and the explicit
\* destination, else the stored location; it fails with ValueError when the
\* text or the destination is absent from both; decode("QQ==", L) writes
\* exactly the byte 0x41 to L whatever is stored.
C6_DecodeResolution ==
    [][Ran(last', "base64_para_arquivo") =>
          LET text == IF last'.text # None THEN last'.text ELSE base64_string
              dest == IF Given(last'.arg) THEN Some(Path(last'.arg.val))
                      ELSE arquivo_path
          IN  /\ text = None => last'.exc = Exc("ValueError", MsgNeedBase64)
              /\ (text # None /\ dest = None)
                    => last'.exc = Exc("ValueError", MsgNeedSavePath)
              /\ (text # None /\ dest # None)
                    => last'.exc.msg \notin {MsgNeedBase64, MsgNeedSavePath}
              /\ Ok(last') => /\ last'.ret = dest
                              /\ fs'[dest.val] = File(b64decode(text.val).data)
              /\ (last'.text = Some(QQpad) /\ Given(last'.arg)
                     /\ Writable(fs, Path(last'.arg.val)))
                    => /\ Ok(last')
                       /\ fs'[Path(last'.arg.val)] = File(<<65>>)]_vars

\* decode("QQ==", "./n//g") wrote 0x41 while another text and location were stored
C6_Witness ==
    /\ last.op = "base64_para_arquivo" /\ Ok(last)
    /\ last.text = Some(QQpad)
    /\ last.arg = Some(<<".", "/", "n", "/", "/", "g">>)
    /\ base64_string = Some(<<"Q", "Q", "=">>)
    /\ fs[FileNG] = File(<<65>>)
    /\ fs[<< <<"a">> >>] # File(<<65>>)

\* C8: desconverter with no stored text raises ValueError itself, without
\* entering base64_para_arquivo and without touching the filesystem; with a
\* stored text it does what base64_para_arquivo(None, destination) does.
C8_Desconverter ==
    [][last'.op = "desconverter" =>
          IF base64_string = None
          THEN /\ last'.exc = Exc("ValueError", MsgNeedBase64First)
               /\ last'.trace = <<"desconverter">>
               /\ UNCHANGED <<base64_string, arquivo_path, fs>>
          ELSE LET r == base64_para_arquivo(St, None, last'.arg,
                             <<"desconverter", "base64_para_arquivo">>)
               IN  /\ last'.trace = r.trace
                   /\ last'.exc = r.exc
                   /\ last'.ret = r.ret
                   /\ <<base64_string', arquivo_path', fs'>>
                         = <<r.b64, r.path, r.fs>>]_vars

\* desconverter failed fast on a converter holding no text
C8_Witness ==
    /\ last.op = "desconverter"
    /\ base64_string = None
    /\ last.exc = Exc("ValueError", MsgNeedBase64First)

\* C10: an encode or decode that fails with ValueError or FileNotFoundError
\* leaves the stored text, the stored location and the filesystem unchanged.
C10_FailureChangesNothing ==
    [][((Ran(last', "arquivo_para_base64") \/ Ran(last', "base64_para_arquivo")
            \/ Ran(last', "desconverter"))
          /\ last'.exc.type \in {"ValueError", "FileNotFoundError"})
          => UNCHANGED <<base64_string, arquivo_path, fs>>]_vars

\* a decode of undecodable text to n/g failed and n was not created
C10_Witness ==
    /\ Ran(last, "base64_para_arquivo")
    /\ last.exc = Exc("ValueError", MsgInvalidBase64)
    /\ Given(last.arg) /\ Path(last.arg.val) = FileNG
    /\ fs[DirN] = Absent

----------------------------------------------------------------------------
(* Properties of the round trip.                                           *)

FileA == << <<"a">> >>

\* C1: encoding a file and decoding the returned text to a new destination
\* succeeds and leaves the destination holding exactly the file's bytes.
C1_RoundTrip ==
    pc = "rt_done" =>
        /\ Ok(last)
        /\ fs[FileA].kind = "file"
        /\ fs[Path(last.arg.val)] = fs[FileA]

\* the two bytes 251, 255 ("+/8=") came back in n/g
C1_Witness ==
    /\ pc = "rt_done"
    /\ fs[FileA] = File(<<251, 255>>)
    /\ fs[FileNG] = File(<<251, 255>>)

\* the number of "=" that end the text t
RECURSIVE TrailingPads(_)
TrailingPads(t) ==
    IF t # <<>> /\ t[Len(t)] = BASE64_PAD
    THEN 1 + TrailingPads(SubSeq(t, 1, Len(t) - 1))
    ELSE 0

\* C7: encoding an n-byte file returns ceil(n/3)*4 characters, alphabet
\* characters followed by the "=" that fill the last group of 4; a zero-byte
\* file gives the empty string, and decoding the empty string gives a
\* zero-length file.
C7_EncodedLength ==
    /\ pc = "rt_decode" =>
          /\ Ok(last)
          /\ LET n == Len(fs[FileA].data)
                 t == last.ret.val
                 k == TrailingPads(t)
             IN  /\ Len(t) = ((n + 2) \div 3) * 4
                 /\ Len(t) % 4 = 0
                 /\ k = (3 - (n % 3)) % 3
                 /\ \A i \in 1..(Len(t) - k) : \E j \in 1..64 : Alphabet[j] = t[i]
                 /\ n = 0 => t = <<>>
    /\ (pc = "rt_done" /\ base64_string = Some(<<>>)) =>
          /\ Ok(last)
          /\ fs[Path(last.arg.val)] = File(<<>>)

\* a two-byte file gave four characters ending in one "="
C7_Witness ==
    /\ pc = "rt_decode"
    /\ Len(fs[FileA].data) = 2
    /\ Len(last.ret.val) = 4
    /\ TrailingPads(last.ret.val) = 1

----------------------------------------------------------------------------
(* Properties of main().                                                   *)

\* C9: whatever a request raises, main() prints an error message and goes
\* back to the menu; the loop is left only by the choice "0".
C9_LoopOnlyExitsOnZero ==
    /\ pc \in {"menu", "exited"}
    /\ pc = "exited" <=> opcao = <<"0">>
    /\ ~ Ok(last) => (pc = "menu" /\ out \in {"Erro", "Erro inesperado"})
    /\ (~ Ok(last) /\ last.exc.type \notin {"ValueError", "FileNotFoundError"})
          => out = "Erro inesperado"

\* decoding to a directory raised IsADirectoryError and the menu came back
C9_Witness ==
    /\ pc = "menu"
    /\ opcao = <<"2">>
    /\ last.exc.type = "IsADirectoryError"
    /\ out = "Erro inesperado"

====
